---- MODULE Spec2Model ----
(***************************************************************************)
(* Task execution engine of Bottleneck-Bots                                *)
(* (src/server/services/taskExecution.service.ts).                          *)
(*                                                                         *)
(* The store (agencyTasks, taskExecutions, outboundMessages, userWebhooks) *)
(* is the shared state.  Every executeTask call is a process whose atomic  *)
(* steps are the awaits of the method: the select of the task (with the    *)
(* local checks that follow it), the insert of the execution record, the   *)
(* update of the task to in_progress, the handler, the update of the       *)
(* execution record, the update of the task (with the notification that    *)
(* follows it), and the catch block.                                       *)
(***************************************************************************)
EXTENDS Integers, Sequences, FiniteSets, TLC

\* ------------------------------------------------------------------ bounds

\* Number of executeTask invocations (they may overlap).
NumCalls == 2
\* Longest automationSteps / browserActions array.
MaxSteps == 2
\* Largest errorCount and maxRetries a task row holds initially.
MaxStored == 1
\* Rows of agencyTasks before a scheduler: one more than a pass takes.
MaxTasks == 11
\* The clock runs from 0 to MaxTime.
MaxTime == 1
\* Largest failure threshold of a circuit breaker.
MaxFailureThreshold == 3
\* Largest success threshold of a circuit breaker.
MaxSuccessThreshold == 2
\* Longest reset timeout of a circuit breaker, in ticks of the clock.
MaxResetTimeout == 2
\* Largest maxAttempts option passed to withRetry.
MaxAttempts == 3
\* The clock of a circuit breaker runs from 0 to MaxClock.
MaxClock == 3
\* The store rejects calls of a scheduled executeTask only while fewer than
\* MaxRecords execution records exist.
MaxRecords == 2

\* ------------------------------------------------------------- vocabulary

TaskTypes ==
  {"browser_automation", "api_call", "ghl_action", "notification",
   "reminder", "data_extraction", "report_generation", "custom"}

TaskStatuses ==
  {"pending", "queued", "in_progress", "completed", "failed", "cancelled"}

TriggeredByValues == {"manual", "scheduled", "automatic"}

\* The store holds one task row; executeTask may also be given an id that no
\* row has.
TaskIds == {1}
RequestedTaskIds == {1, 2}

\* A nullable value is a set with at most one element.
None == {}
Some(x) == {x}
Get(o) == CHOOSE x \in o : TRUE

\* JavaScript's  x || d  on a nullable number.  A null column is read as 0
\* here: both are falsy, and every read of errorCount and maxRetries in the
\* source goes through ||.
OrDefault(x, d) == IF x = 0 THEN d ELSE x

\* One automation step: the two flags the step loop reads.
StepShapes == [continueOnError : BOOLEAN, screenshot : BOOLEAN]

SeqsUpTo(S, n) == UNION {[1..k -> S] : k \in 0..n}

\* executionConfig is null (None) or a document (Some) whose fields may each
\* be absent: an absent array is None, an absent string is "" (falsy as well).
EmptyConfig ==
  [automationSteps |-> None, browserActions |-> None, apiEndpoint |-> "",
   ghlAction |-> "", reminderTime |-> "", reportType |-> "",
   sendNotification |-> FALSE]

ValidUrl == "https://api.example.com/users"
\* new URL(s) parses s: of the strings used here only ValidUrl parses.
IsUrl(s) == s = ValidUrl
KnownGhlActions ==
  {"add_contact", "send_sms", "create_opportunity", "add_tag", "update_contact"}
KnownReportTypes == {"task_summary", "execution_stats", "webhook_activity"}

\* The documents a task of each type is given here: the field its type
\* requires is absent, malformed or set.
ConfigsOf(type, n) ==
  {None} \cup
  {Some(c) : c \in
    CASE type \in {"browser_automation", "data_extraction"} ->
           {EmptyConfig}
           \cup {[EmptyConfig EXCEPT !.automationSteps = Some(s)] :
                   s \in SeqsUpTo(StepShapes, n)}
           \cup {[EmptyConfig EXCEPT !.browserActions = Some(s)] :
                   s \in SeqsUpTo({[continueOnError |-> FALSE, screenshot |-> FALSE]}, 1)}
      [] type = "api_call" ->
           {[EmptyConfig EXCEPT !.apiEndpoint = u] : u \in {"", "not a url", ValidUrl}}
      [] type = "ghl_action" ->
           {[EmptyConfig EXCEPT !.ghlAction = a] : a \in {"", "add_contact", "frobnicate"}}
      [] type = "reminder" ->
           {[EmptyConfig EXCEPT !.reminderTime = t] : t \in {"", "future", "past"}}
      [] type = "report_generation" ->
           {[EmptyConfig EXCEPT !.reportType = r, !.sendNotification = b] :
              r \in {"", "task_summary", "bogus"}, b \in BOOLEAN}
      [] OTHER -> {EmptyConfig}}

\* ------------------------------------------------------ validateTaskConfig

Invalid(msg) == [valid |-> FALSE, error |-> msg]

\* config?.field is undefined when config is null.
Field(task, f) ==
  IF task.executionConfig = None THEN EmptyConfig[f] ELSE Get(task.executionConfig)[f]

\* validateTaskConfig without the case for reminder.
validateTaskConfig_NoReminderCase(task) ==
  IF task.taskType = "reminder"
  THEN [valid |-> TRUE, error |-> ""]
  ELSE IF task.taskType \in {"browser_automation", "data_extraction"}
          /\ Field(task, "browserActions") = None /\ Field(task, "automationSteps") = None
       THEN Invalid("Browser automation requires browserActions or automationSteps")
       ELSE IF task.taskType = "api_call" /\ ~IsUrl(Field(task, "apiEndpoint"))
            THEN Invalid("API call requires apiEndpoint")
            ELSE IF task.taskType = "ghl_action" /\ Field(task, "ghlAction") = ""
                 THEN Invalid("GHL action requires ghlAction type")
                 ELSE IF task.taskType = "report_generation" /\ Field(task, "reportType") = ""
                      THEN Invalid("Report generation requires reportType")
                      ELSE [valid |-> TRUE, error |-> ""]

validateTaskConfig(task) ==
  IF /\ task.taskType \in
          {"browser_automation", "api_call", "ghl_action", "report_generation"}
     /\ task.executionConfig = None
  THEN Invalid("Task type " \o task.taskType \o " requires execution configuration")
  ELSE CASE task.taskType \in {"browser_automation", "data_extraction"} ->
              IF Field(task, "browserActions") = None /\ Field(task, "automationSteps") = None
              THEN Invalid("Browser automation requires browserActions or automationSteps")
              ELSE [valid |-> TRUE, error |-> ""]
         [] task.taskType = "api_call" ->
              IF Field(task, "apiEndpoint") = ""
              THEN Invalid("API call requires apiEndpoint")
              ELSE IF ~IsUrl(Field(task, "apiEndpoint"))
                   THEN Invalid("Invalid API endpoint URL")
                   ELSE [valid |-> TRUE, error |-> ""]
         [] task.taskType = "ghl_action" ->
              IF Field(task, "ghlAction") = ""
              THEN Invalid("GHL action requires ghlAction type")
              ELSE [valid |-> TRUE, error |-> ""]
         [] task.taskType = "reminder" ->
              IF Field(task, "reminderTime") = ""
              THEN Invalid("Reminder requires reminderTime")
              ELSE [valid |-> TRUE, error |-> ""]
         [] task.taskType = "report_generation" ->
              IF Field(task, "reportType") = ""
              THEN Invalid("Report generation requires reportType")
              ELSE [valid |-> TRUE, error |-> ""]
         [] OTHER -> [valid |-> TRUE, error |-> ""]

\* ---------------------------------------------------------------- handlers

\* What a handler returns (ExecutionResult), with what it did on the way:
\* messages are the outboundMessages rows it inserted; sessionInfo tells that it
\* wrote browserSessionId and debugUrl onto the execution record; attached,
\* closeCalls, executed and log record the controller's use (whether
\* stagehand.init() returned, how often stagehand.close() was called, how
\* many steps were handed to executeAutomationStep and how each ended);
\* httpCalls counts its calls of fetch.
Result(ok, err) ==
  [success |-> ok, error |-> err, steps |-> <<>>, screenshots |-> 0,
   messages |-> <<>>, sessionInfo |-> FALSE, attached |-> FALSE,
   closeCalls |-> 0, executed |-> 0, log |-> <<>>, httpCalls |-> 0]

\* What the collaborators answer during one handler run.
\*   setup: the first call of the browser set-up that throws, or "ok";
\*   stepOk[i]: executeAutomationStep returns for step i (else it throws);
\*   shotOk[i]: page.screenshot returns after step i (else it throws);
\*   closeOk: stagehand.close() returns; http: how fetch ends;
\*   storeOk: the handler's own store reads and writes succeed.
SetupOutcomes == {"ok", "createSession", "getSessionDebug", "update", "init"}
HttpOutcomes == {"ok", "status404", "timeout", "network"}
QuietEnv(n) ==
  [setup |-> "ok", stepOk |-> [i \in 1..n |-> TRUE],
   shotOk |-> [i \in 1..n |-> TRUE], closeOk |-> TRUE, http |-> "ok",
   storeOk |-> TRUE]

\* The answers a handler run for a task of this type with n automation steps
\* can get, the remote HTTP ends answering as in answers and the browser
\* provider as in setups.
EnvsOf(type, n, answers, setups) ==
  CASE type \in {"browser_automation", "data_extraction"} ->
         {[QuietEnv(n) EXCEPT !.setup = s, !.stepOk = so, !.shotOk = sh, !.closeOk = c] :
            s \in setups, so \in [1..n -> BOOLEAN],
            sh \in [1..n -> BOOLEAN], c \in BOOLEAN}
    [] type \in {"api_call", "ghl_action"} ->
         {[QuietEnv(0) EXCEPT !.http = h] : h \in answers}
    [] type \in {"notification", "reminder", "report_generation"} ->
         {[QuietEnv(0) EXCEPT !.storeOk = b] : b \in BOOLEAN}
    [] OTHER -> {QuietEnv(0)}

\* (step as any).continueOnError read as always set.
ContinuesOnError_Always(step) == TRUE

\* Line 389: (step as any).continueOnError
ContinuesOnError(step) == step.continueOnError

StepOk(i) == [step |-> i, error |-> FALSE]
StepError(i) == [step |-> i, error |-> TRUE]

\* The for loop of executeBrowserAutomation from step i on.  acc carries
\* results, screenshots and the log; aborted tells that an error left the loop.
RECURSIVE RunSteps(_, _, _, _)
RunSteps(steps, env, i, acc) ==
  IF i > Len(steps)
  THEN acc
  ELSE LET step == steps[i]
           ran == [acc EXCEPT !.executed = i]
       IN IF env.stepOk[i]
          THEN LET pushed == [ran EXCEPT !.results = Append(@, StepOk(i))]
               IN IF ~step.screenshot
                  THEN RunSteps(steps, env, i + 1, [pushed EXCEPT !.log = Append(@, "ok")])
                  ELSE IF env.shotOk[i]
                       THEN RunSteps(steps, env, i + 1,
                              [pushed EXCEPT !.screenshots = @ + 1,
                                             !.log = Append(@, "ok")])
                       \* page.screenshot threw inside the try of the step
                       ELSE IF ~ContinuesOnError(step)
                            THEN [pushed EXCEPT !.aborted = TRUE,
                                                !.error = "screenshot failed",
                                                !.log = Append(@, "shotError")]
                            ELSE RunSteps(steps, env, i + 1,
                                   [pushed EXCEPT !.results = Append(@, StepError(i)),
                                                  !.log = Append(@, "shotError")])
          ELSE IF ~ContinuesOnError(step)
               THEN [ran EXCEPT !.aborted = TRUE, !.error = "step failed",
                                !.log = Append(@, "stepError")]
               ELSE RunSteps(steps, env, i + 1,
                      [ran EXCEPT !.results = Append(@, StepError(i)),
                                  !.log = Append(@, "stepError")])

\* Line 375: config.automationSteps || config.browserActions || []
StepsOf(task) ==
  IF Field(task, "automationSteps") # None
  THEN Get(Field(task, "automationSteps"))
  ELSE IF Field(task, "browserActions") # None
       THEN Get(Field(task, "browserActions"))
       ELSE <<>>

executeBrowserAutomation(task, env) ==
  IF Field(task, "browserActions") = None /\ Field(task, "automationSteps") = None
  THEN Result(FALSE, "No browser actions configured")
  ELSE IF env.setup = "createSession" THEN Result(FALSE, "createSession failed")
  ELSE IF env.setup = "getSessionDebug" THEN Result(FALSE, "getSessionDebug failed")
  ELSE IF env.setup = "update" THEN Result(FALSE, "store error")
  ELSE IF env.setup = "init"
       THEN [Result(FALSE, "init failed") EXCEPT !.sessionInfo = TRUE]
  ELSE LET steps == StepsOf(task)
           loop == RunSteps(steps, env, 1,
                     [results |-> <<>>, screenshots |-> 0, log |-> <<>>,
                      executed |-> 0, aborted |-> FALSE, error |-> ""])
           base == [Result(TRUE, "") EXCEPT
                      !.sessionInfo = TRUE, !.attached = TRUE,
                      !.executed = loop.executed, !.log = loop.log]
       IN IF loop.aborted
          \* throw stepError: the outer catch returns, close() is not reached
          THEN [base EXCEPT !.success = FALSE, !.error = loop.error]
          ELSE IF ~env.closeOk
               THEN [base EXCEPT !.success = FALSE, !.error = "close failed",
                                 !.closeCalls = 1]
               ELSE [base EXCEPT !.steps = loop.results,
                                 !.screenshots = loop.screenshots,
                                 !.closeCalls = 1]

executeApiCall(task, env) ==
  IF Field(task, "apiEndpoint") = ""
  THEN Result(FALSE, "No API endpoint configured")
  ELSE [(CASE env.http = "ok" -> Result(TRUE, "")
            [] env.http = "status404" -> Result(FALSE, "API returned 404: Not Found")
            [] env.http = "timeout" -> Result(FALSE, "API request timeout after 30000ms")
            [] OTHER -> Result(FALSE, "fetch failed"))
        EXCEPT !.httpCalls = 1]

\* An outboundMessages row.
Message(task, type, scheduledFor) ==
  [webhookId |-> task.sourceWebhookId, messageType |-> type,
   deliveryStatus |-> "pending", scheduledFor |-> scheduledFor]

\* The userWebhooks row a task names can be used for outbound delivery.
WebhookUsable(hooks, task) ==
  /\ task.sourceWebhookId \in DOMAIN hooks
  /\ hooks[task.sourceWebhookId].outboundEnabled

executeNotification(task, env, hooks) ==
  IF task.executionConfig = None \/ task.sourceWebhookId = 0
  THEN Result(FALSE, "No webhook configured for notification")
  ELSE IF ~env.storeOk THEN Result(FALSE, "store error")
  ELSE IF ~WebhookUsable(hooks, task)
       THEN Result(FALSE, "Webhook not configured for outbound messages")
       ELSE [Result(TRUE, "") EXCEPT
               !.messages = <<Message(task, "notification", "")>>]

executeReminder(task, env) ==
  IF Field(task, "reminderTime") = ""
  THEN Result(FALSE, "Reminder time not specified")
  ELSE IF task.sourceWebhookId # 0
       THEN IF ~env.storeOk
            THEN Result(FALSE, "store error")
            ELSE [Result(TRUE, "") EXCEPT
                    !.messages = <<Message(task, "reminder", Field(task, "reminderTime"))>>]
       ELSE Result(TRUE, "")

\* executeGhlAction sending an unknown action to the contacts endpoint.
executeGhlAction_UnknownActionFetched(task, env, apiKey) ==
  IF Field(task, "ghlAction") = ""
  THEN Result(FALSE, "GHL action not specified")
  ELSE IF ~apiKey THEN Result(FALSE, "GHL API key not configured")
  ELSE [(CASE env.http = "ok" -> Result(TRUE, "")
           [] env.http = "status404" -> Result(FALSE, "GHL API error (404)")
           [] OTHER -> Result(FALSE, "fetch failed"))
        EXCEPT !.httpCalls = 1]

\* executeGhlAction reading the API key only when it builds the request.
executeGhlAction_KeyReadAtFetch(task, env, apiKey) ==
  IF Field(task, "ghlAction") = ""
  THEN Result(FALSE, "GHL action not specified")
  ELSE IF Field(task, "ghlAction") \notin KnownGhlActions
       THEN Result(FALSE, "Unknown GHL action: " \o Field(task, "ghlAction"))
  ELSE IF ~apiKey THEN Result(FALSE, "GHL API key not configured")
       ELSE [(CASE env.http = "ok" -> Result(TRUE, "")
                [] env.http = "status404" -> Result(FALSE, "GHL API error (404)")
                [] OTHER -> Result(FALSE, "fetch failed"))
             EXCEPT !.httpCalls = 1]

executeGhlAction(task, env, apiKey) ==
  IF Field(task, "ghlAction") = ""
  THEN Result(FALSE, "GHL action not specified")
  ELSE IF ~apiKey THEN Result(FALSE, "GHL API key not configured")
  ELSE IF Field(task, "ghlAction") \notin KnownGhlActions
       THEN Result(FALSE, "Unknown GHL action: " \o Field(task, "ghlAction"))
       ELSE [(CASE env.http = "ok" -> Result(TRUE, "")
                 [] env.http = "status404" -> Result(FALSE, "GHL API error (404)")
                 [] OTHER -> Result(FALSE, "fetch failed"))
             EXCEPT !.httpCalls = 1]

executeReportGeneration(task, env) ==
  IF Field(task, "reportType") = ""
  THEN Result(FALSE, "Report type not specified")
  ELSE IF Field(task, "reportType") \notin KnownReportTypes
       THEN Result(FALSE, "Unknown report type: " \o Field(task, "reportType"))
  ELSE IF ~env.storeOk THEN Result(FALSE, "store error")
  ELSE IF Field(task, "sendNotification") /\ task.sourceWebhookId # 0
       THEN [Result(TRUE, "") EXCEPT !.messages = <<Message(task, "task_update", "")>>]
       ELSE Result(TRUE, "")

executeCustomTask(task) == Result(TRUE, "")

\* The switch on task.taskType of executeTask.
Dispatch(task, env, hooks, apiKey) ==
  CASE task.taskType \in {"browser_automation", "data_extraction"} ->
         executeBrowserAutomation(task, env)
    [] task.taskType = "api_call" -> executeApiCall(task, env)
    [] task.taskType = "notification" -> executeNotification(task, env, hooks)
    [] task.taskType = "reminder" -> executeReminder(task, env)
    [] task.taskType = "ghl_action" -> executeGhlAction(task, env, apiKey)
    [] task.taskType = "report_generation" -> executeReportGeneration(task, env)
    [] OTHER -> executeCustomTask(task)

\* -------------------------------------------------------------------- state

VARIABLES
  tasks,        \* agencyTasks: task id -> row
  executions,   \* taskExecutions: the rows in insertion order, id = position
  outbound,     \* outboundMessages: the rows in insertion order
  webhooks,     \* userWebhooks: webhook id -> row
  ghlApiKey,    \* process.env.GHL_API_KEY is set
  httpAnswers,  \* how the remote HTTP endpoints may answer a fetch
  setupAnswers, \* how far the browser provider may let a session setup get
  pc,           \* call -> the await an executeTask call stands before
  taskId,       \* call -> its taskId argument
  triggeredBy,  \* call -> its triggeredBy argument (an input, fixed)
  task,         \* call -> the row it selected (None before the select)
  executionId,  \* call -> the id of the record it inserted (0: undefined)
  result,       \* call -> what its handler returned (None before)
  returned,     \* call -> what executeTask resolved to (None before)
  scheduler,    \* the processPendingTasks pass under way, and the last result
  now,          \* the clock (new Date())
  breaker,      \* the circuit breaker of one dependency
  thresholds,   \* its configuration (fixed)
  guarded       \* the execute(() => withRetry(...)) call under way

vars ==
  <<tasks, executions, outbound, webhooks, ghlApiKey, httpAnswers,
    setupAnswers, pc, taskId, triggeredBy, task, executionId, result,
    returned, scheduler, now, breaker, thresholds, guarded>>

Calls == DOMAIN pc

store == <<tasks, executions, outbound>>
locals == <<taskId, task, executionId, result, returned>>
resilience == <<breaker, thresholds, guarded>>
config ==
  <<webhooks, ghlApiKey, httpAnswers, setupAnswers, triggeredBy, scheduler, now,
    resilience>>

\* A breaker as constructed: CLOSED, nothing counted.
ClosedBreaker ==
  [state |-> "CLOSED", failureCount |-> 0, successCount |-> 0,
   lastTransition |-> 0]

\* No guarded call is under way.
NoGuardedCall ==
  [pc |-> "idle", maxAttempts |-> 0, invocations |-> 0, failed |-> 0,
   lastError |-> None, settled |-> None]

\* The task service is run without a guarded dependency.
BreakerUnused ==
  /\ breaker = ClosedBreaker
  /\ thresholds = [failureThreshold |-> 1, successThreshold |-> 1, resetTimeout |-> 1]
  /\ guarded = NoGuardedCall

TaskRow(status, errorCount, maxRetries, review, reviewedBy, type, cfg, onComplete, onFailure, webhook) ==
  [status |-> status, errorCount |-> errorCount, maxRetries |-> maxRetries,
   statusReason |-> "", requiresHumanReview |-> review,
   humanReviewedBy |-> reviewedBy, taskType |-> type, executionConfig |-> cfg,
   notifyOnComplete |-> onComplete, notifyOnFailure |-> onFailure,
   sourceWebhookId |-> webhook, assignedToBot |-> TRUE, scheduledFor |-> None,
   startedAt |-> None]

\* No processPendingTasks pass is under way; returned is what the last pass
\* resolved to.
SchedulerIdle(value) ==
  [pc |-> "idle", batch |-> <<>>, processed |-> 0, success |-> 0, failed |-> 0,
   returned |-> value]

\* The state before any executeTask call has started: n calls are to come,
\* all from the same kind of caller.
NoCallYet(n, bys) ==
  /\ executions = <<>>
  /\ outbound = <<>>
  /\ pc = [c \in 1..n |-> "start"]
  /\ taskId = [c \in 1..n |-> 0]
  /\ \E by \in bys : triggeredBy = [c \in 1..n |-> by]
  /\ task = [c \in 1..n |-> None]
  /\ executionId = [c \in 1..n |-> 0]
  /\ result = [c \in 1..n |-> None]
  /\ returned = [c \in 1..n |-> None]
  /\ scheduler = SchedulerIdle(None)
  /\ now = 0
  /\ BreakerUnused

EnabledWebhook == [w \in {1} |-> [outboundEnabled |-> TRUE]]

ApiCallConfig == Some([EmptyConfig EXCEPT !.apiEndpoint = ValidUrl])

\* A task in any status and review state, of the type whose handler cannot
\* fail (custom).
InitGates ==
  \E status \in TaskStatuses, review \in BOOLEAN, reviewedBy \in {0, 1} :
    tasks = [t \in TaskIds |->
               TaskRow(status, 0, 0, review, reviewedBy, "custom", None,
                       FALSE, FALSE, 1)]

\* A pending task with any stored errorCount and maxRetries, of a type whose
\* handler succeeds or fails with what the remote end answers (api_call).
InitCounters ==
  \E e \in 0..MaxStored, m \in 0..MaxStored :
    tasks = [t \in TaskIds |->
               TaskRow("pending", e, m, FALSE, 0, "api_call", ApiCallConfig,
                       FALSE, FALSE, 1)]

\* The gates are tried from every kind of caller, the counters from the
\* scheduler (triggeredBy is only copied into the execution record).
Init ==
  /\ \/ InitGates /\ NoCallYet(NumCalls, TriggeredByValues)
     \/ InitCounters /\ NoCallYet(NumCalls, {"scheduled"})
  /\ webhooks = EnabledWebhook
  /\ ghlApiKey = TRUE
  /\ httpAnswers = {"ok", "status404"}
  /\ setupAnswers = SetupOutcomes

\* A pending task of any type with any of the documents of its type (the
\* step arrays empty); overlapping calls.
InitValidate ==
  /\ \E type \in TaskTypes :
       \E cfg \in ConfigsOf(type, 0) :
         tasks = [t \in TaskIds |->
                    TaskRow("pending", 0, 0, FALSE, 0, type, cfg, FALSE, FALSE, 1)]
  /\ webhooks = EnabledWebhook
  /\ ghlApiKey = TRUE
  /\ httpAnswers = {"ok"}
  /\ setupAnswers = {"ok"}
  /\ NoCallYet(NumCalls, {"manual"})

\* A pending browser_automation or data_extraction task with any step array;
\* one call.
InitBrowser ==
  /\ \E type \in {"browser_automation", "data_extraction"} :
       \E cfg \in ConfigsOf(type, MaxSteps) :
         tasks = [t \in TaskIds |->
                    TaskRow("pending", 0, 0, FALSE, 0, type, cfg, FALSE, FALSE, 1)]
  /\ webhooks = EnabledWebhook
  /\ ghlApiKey = TRUE
  /\ httpAnswers = HttpOutcomes
  /\ setupAnswers = SetupOutcomes
  /\ NoCallYet(1, TriggeredByValues)

\* The userWebhooks tables: the webhook of the task enabled for outbound
\* delivery, disabled, or gone.
WebhookTables ==
  {EnabledWebhook, [w \in {1} |-> [outboundEnabled |-> FALSE]], <<>>}

\* A pending notification, reminder or ghl_action task with any of the
\* documents of its type, with or without a source webhook and notify flags,
\* the webhook enabled, disabled or gone, the GHL API key set or not; one call.
InitHandlers ==
  /\ \E type \in {"notification", "reminder", "ghl_action"} :
       \E cfg \in ConfigsOf(type, 0), m \in 0..MaxStored, hook \in {0, 1},
          onComplete \in BOOLEAN, onFailure \in BOOLEAN :
         tasks = [t \in TaskIds |->
                    TaskRow("pending", 0, m, FALSE, 0, type, cfg, onComplete, onFailure, hook)]
  /\ webhooks \in WebhookTables
  /\ ghlApiKey \in BOOLEAN
  /\ httpAnswers = {"ok", "status404"}
  /\ setupAnswers = {"ok"}
  /\ NoCallYet(1, {"manual"})

\* A task just created: pending, errorCount 0, any stored maxRetries, of a
\* type whose handler succeeds or fails with what the remote end answers;
\* overlapping calls.
InitFresh ==
  /\ \E m \in 0..MaxStored :
       tasks = [t \in TaskIds |->
                  TaskRow("pending", 0, m, FALSE, 0, "api_call", ApiCallConfig,
                          FALSE, FALSE, 1)]
  /\ webhooks = EnabledWebhook
  /\ ghlApiKey = TRUE
  /\ httpAnswers = {"ok", "status404"}
  /\ setupAnswers = {"ok"}
  /\ NoCallYet(NumCalls, {"manual"})

\* ------------------------------------------------------------- executeTask

Failure(msg) == Some([success |-> FALSE, error |-> msg])

\* Rejection without the check of cancelled.
Rejection_NoCancelledCheck(row) ==
  IF row.status = "completed" THEN "Task is already completed"
  ELSE IF row.requiresHumanReview /\ row.humanReviewedBy = 0
       THEN "Task requires human review"
  ELSE IF ~validateTaskConfig(row).valid THEN validateTaskConfig(row).error
  ELSE ""

\* Rejection with the review gate open to scheduled runs only when unset:
\* the gate tests requiresHumanReview alone on a reviewed task and lets an
\* unreviewed one through.
Rejection_ReviewGateInverted(row) ==
  IF row.status = "completed" THEN "Task is already completed"
  ELSE IF row.status = "cancelled" THEN "Task is cancelled"
  ELSE IF row.requiresHumanReview /\ row.humanReviewedBy # 0
       THEN "Task requires human review"
  ELSE IF ~validateTaskConfig(row).valid THEN validateTaskConfig(row).error
  ELSE ""

\* Lines 143-163: the checks between the select and the insert.  "" when the
\* task passes them all.
Rejection(row) ==
  IF row.status = "completed" THEN "Task is already completed"
  ELSE IF row.status = "cancelled" THEN "Task is cancelled"
  ELSE IF row.requiresHumanReview /\ row.humanReviewedBy = 0
       THEN "Task requires human review"
  ELSE IF ~validateTaskConfig(row).valid THEN validateTaskConfig(row).error
  ELSE ""

\* return value: the call resolves to value and its locals are gone.
Return(c, value) ==
  /\ returned' = [returned EXCEPT ![c] = value]
  /\ pc' = [pc EXCEPT ![c] = "returned"]
  /\ taskId' = [taskId EXCEPT ![c] = 0]
  /\ task' = [task EXCEPT ![c] = None]
  /\ executionId' = [executionId EXCEPT ![c] = 0]
  /\ result' = [result EXCEPT ![c] = None]

\* await db.select().from(agencyTasks)... and the checks up to the insert.
\* The calls are numbered in the order in which they start.  A caller that
\* has not fixed its taskId argument yet asks for any task.
SelectTask(c) ==
  /\ pc[c] = "start"
  /\ \A d \in Calls : d < c => pc[d] # "start"
  /\ \E id \in IF taskId[c] = 0 THEN RequestedTaskIds ELSE {taskId[c]} :
       IF id \notin DOMAIN tasks
       THEN Return(c, Failure("Task not found"))
       ELSE IF Rejection(tasks[id]) # ""
            THEN Return(c, Failure(Rejection(tasks[id])))
            ELSE /\ taskId' = [taskId EXCEPT ![c] = id]
                 /\ task' = [task EXCEPT ![c] = Some(tasks[id])]
                 /\ pc' = [pc EXCEPT ![c] = "insert"]
                 /\ UNCHANGED <<executionId, result, returned>>
  /\ UNCHANGED <<store, config>>

\* The record numbered by the errors so far, not by the attempt.
NewExecution_AttemptIsErrorCount(c) ==
  [taskId |-> taskId[c], triggeredBy |-> triggeredBy[c], status |-> "running",
   attemptNumber |-> OrDefault(Get(task[c]).errorCount, 0),
   error |-> "", browserSessionId |-> FALSE]

\* await db.insert(taskExecutions).values({... status: "running" ...})
NewExecution(c) ==
  [taskId |-> taskId[c], triggeredBy |-> triggeredBy[c], status |-> "running",
   attemptNumber |-> OrDefault(Get(task[c]).errorCount, 0) + 1,
   error |-> "", browserSessionId |-> FALSE]

InsertExecution(c) ==
  /\ pc[c] = "insert"
  /\ executions' = Append(executions, NewExecution(c))
  /\ executionId' = [executionId EXCEPT ![c] = Len(executions) + 1]
  /\ pc' = [pc EXCEPT ![c] = "setInProgress"]
  /\ UNCHANGED <<tasks, outbound, config, taskId, task, result, returned>>

\* await db.update(agencyTasks).set({status: "in_progress", ...})
SetInProgress(c) ==
  /\ pc[c] = "setInProgress"
  /\ tasks' = [tasks EXCEPT ![taskId[c]].status = "in_progress",
                             ![taskId[c]].startedAt = Some(now)]
  /\ pc' = [pc EXCEPT ![c] = "handler"]
  /\ UNCHANGED <<executions, outbound, config, locals>>

\* result = await this.execute...(task): the handler of the task's type, run
\* on the row the call selected.  What it wrote goes to the store with it.
RunHandler(c) ==
  /\ pc[c] = "handler"
  /\ \E env \in EnvsOf(Get(task[c]).taskType, Len(StepsOf(Get(task[c]))),
                         httpAnswers, setupAnswers) :
       LET r == Dispatch(Get(task[c]), env, webhooks, ghlApiKey)
       IN /\ result' = [result EXCEPT ![c] = Some(r)]
          /\ outbound' = outbound \o r.messages
          /\ executions' =
               IF r.sessionInfo
               THEN [executions EXCEPT ![executionId[c]].browserSessionId = TRUE]
               ELSE executions
  /\ pc' = [pc EXCEPT ![c] = "updateExecution"]
  /\ UNCHANGED <<tasks, config, taskId, task, executionId, returned>>

\* await db.update(taskExecutions).set({status: result.success ? ...})
ExecutionStatusOf(r) == IF r.success THEN "success" ELSE "failed"

UpdateExecution(c) ==
  /\ pc[c] = "updateExecution"
  /\ executions' = [executions EXCEPT
                      ![executionId[c]].status = ExecutionStatusOf(Get(result[c])),
                      ![executionId[c]].error = Get(result[c]).error]
  /\ pc' = [pc EXCEPT ![c] = "updateTask"]
  /\ UNCHANGED <<tasks, outbound, config, locals>>

\* sendNotification: a task_update message when the task names a usable
\* webhook; its own try/catch swallows a failing insert (sent = FALSE).
Notification(row, hooks, sent) ==
  IF row.sourceWebhookId # 0 /\ WebhookUsable(hooks, row) /\ sent
  THEN <<Message(row, "task_update", "")>>
  ELSE <<>>

\* Lines 257-288: the task row after a handler failure.
FailedTask(stored, row) ==
  LET newErrorCount == OrDefault(row.errorCount, 0) + 1
      maxRetries == OrDefault(row.maxRetries, 3)
  IN IF newErrorCount >= maxRetries
     THEN [stored EXCEPT !.status = "failed", !.errorCount = newErrorCount,
                         !.statusReason = "Failed after attempts"]
     ELSE [stored EXCEPT !.status = "pending", !.errorCount = newErrorCount,
                         !.statusReason = "Attempt failed, will retry"]

\* CompletedTask counting the run as an attempt.
CompletedTask_CountsAttempt(stored) ==
  [stored EXCEPT !.status = "completed", !.errorCount = @ + 1]

\* Lines 241-256: the task row after a handler success.
CompletedTask(stored) == [stored EXCEPT !.status = "completed"]

\* Lines 240-291: the update of the task row, the notification that follows
\* it and the return.  sendNotification only appends to outboundMessages and
\* reads the webhook row, so it is taken in the same step as the update.
UpdateTask(c) ==
  /\ pc[c] = "updateTask"
  /\ LET row == Get(task[c])
         r == Get(result[c])
         after == IF r.success
                  THEN CompletedTask(tasks[taskId[c]])
                  ELSE FailedTask(tasks[taskId[c]], row)
         notify == IF r.success THEN row.notifyOnComplete
                   ELSE after.status = "failed" /\ row.notifyOnFailure
     IN /\ tasks' = [tasks EXCEPT ![taskId[c]] = after]
        /\ \E sent \in BOOLEAN :
             outbound' = IF notify
                         THEN outbound \o Notification(row, webhooks, sent)
                         ELSE outbound
        /\ Return(c, Some([success |-> r.success, error |-> r.error]))
  /\ UNCHANGED <<executions, config>>

\* One of the store calls of the try block rejects: control goes to the
\* catch block, where the locals of the try block (task, result) are gone.
StoreAwaits == {"start", "insert", "setInProgress", "updateExecution", "updateTask"}

StoreThrows(c) ==
  /\ pc[c] \in StoreAwaits
  /\ \A d \in Calls : d < c => pc[d] # "start"
  /\ pc' = [pc EXCEPT ![c] = "catch"]
  /\ task' = [task EXCEPT ![c] = None]
  /\ result' = [result EXCEPT ![c] = None]
  /\ UNCHANGED <<store, config, taskId, executionId, returned>>

\* Lines 292-315: the catch block marks the record failed, if one was
\* created, and returns the failure.
Catch(c) ==
  /\ pc[c] = "catch"
  /\ executions' =
       IF executionId[c] # 0
       THEN [executions EXCEPT ![executionId[c]].status = "failed",
                               ![executionId[c]].error = "store error"]
       ELSE executions
  /\ Return(c, Failure("store error"))
  /\ UNCHANGED <<tasks, outbound, config>>

\* The update inside the catch block rejects too: executeTask rejects, and
\* the record is left as it was.
CatchThrows(c) ==
  /\ pc[c] = "catch"
  /\ executionId[c] # 0
  /\ pc' = [pc EXCEPT ![c] = "threw"]
  /\ taskId' = [taskId EXCEPT ![c] = 0]
  /\ executionId' = [executionId EXCEPT ![c] = 0]
  /\ UNCHANGED <<store, config, task, result, returned>>

Next ==
  \/ \E c \in Calls : SelectTask(c)
  \/ \E c \in Calls : InsertExecution(c)
  \/ \E c \in Calls : SetInProgress(c)
  \/ \E c \in Calls : RunHandler(c)
  \/ \E c \in Calls : UpdateExecution(c)
  \/ \E c \in Calls : UpdateTask(c)
  \/ \E c \in Calls : StoreThrows(c)
  \/ \E c \in Calls : Catch(c)
  \/ \E c \in Calls : CatchThrows(c)

Spec == Init /\ [][Next]_vars

SpecValidate == InitValidate /\ [][Next]_vars

SpecBrowser == InitBrowser /\ [][Next]_vars

SpecHandlers == InitHandlers /\ [][Next]_vars

SpecFresh == InitFresh /\ [][Next]_vars

\* ------------------------------------------------------ processPendingTasks

\* Line 1126: .limit(10)
BatchLimit == 10

\* Selectable without the test of scheduledFor.
Selectable_IgnoresSchedule(row, t) ==
  /\ row.assignedToBot
  /\ ~row.requiresHumanReview
  /\ row.status \in {"pending", "queued"}

\* Lines 1112-1125: the where clause of the select, at time t.
Selectable(row, t) ==
  /\ row.assignedToBot
  /\ ~row.requiresHumanReview
  /\ row.status \in {"pending", "queued"}
  /\ row.scheduledFor = None \/ Get(row.scheduledFor) <= t

\* The elements of a set of task ids in ascending order.
RECURSIVE Ascending(_)
Ascending(S) ==
  IF S = {} THEN <<>>
  ELSE LET least == CHOOSE x \in S : \A y \in S : x <= y
       IN <<least>> \o Ascending(S \ {least})

\* What the select with limit(10) can return: any BatchLimit of the
\* selectable rows (the query has no ORDER BY), all of them when they are
\* fewer.  The loop visits them in the order of their ids.
Batches ==
  LET ready == {t \in DOMAIN tasks : Selectable(tasks[t], now)}
  IN IF Cardinality(ready) <= BatchLimit
     THEN {Ascending(ready)}
     ELSE {Ascending(S) : S \in {B \in SUBSET ready : Cardinality(B) = BatchLimit}}

\* Lines 1109-1129: the select resolves; success and failed start at 0.
SchedulerSelect ==
  /\ scheduler.pc = "idle"
  /\ \E batch \in Batches :
       scheduler' = [pc |-> "loop", batch |-> batch, processed |-> Len(batch),
                     success |-> 0, failed |-> 0, returned |-> None]
  /\ UNCHANGED <<store, locals, pc, webhooks, ghlApiKey, httpAnswers,
                 setupAnswers, triggeredBy, now, resilience>>

\* Lines 1141-1144: the select rejects and the catch returns zeros.
SchedulerSelectThrows ==
  /\ scheduler.pc = "idle"
  /\ scheduler' = SchedulerIdle(Some([processed |-> 0, success |-> 0, failed |-> 0]))
  /\ UNCHANGED <<store, locals, pc, webhooks, ghlApiKey, httpAnswers,
                 setupAnswers, triggeredBy, now, resilience>>

\* Line 1132: this.executeTask(task.id, "scheduled") is called for the next
\* task of the batch.
SchedulerCall(c) ==
  /\ scheduler.pc = "loop"
  /\ scheduler.batch # <<>>
  /\ pc[c] = "free"
  /\ pc' = [pc EXCEPT ![c] = "start"]
  /\ taskId' = [taskId EXCEPT ![c] = Head(scheduler.batch)]
  /\ triggeredBy' = [triggeredBy EXCEPT ![c] = "scheduled"]
  /\ scheduler' = [scheduler EXCEPT !.pc = "await"]
  /\ UNCHANGED <<store, task, executionId, result, returned, webhooks,
                 ghlApiKey, httpAnswers, setupAnswers, now, resilience>>

\* Lines 1132-1137: executeTask has resolved; the result is counted.
SchedulerResume(c) ==
  /\ scheduler.pc = "await"
  /\ pc[c] = "returned"
  /\ scheduler' =
       [scheduler EXCEPT
          !.pc = "loop",
          !.batch = Tail(@),
          !.success = IF Get(returned[c]).success THEN @ + 1 ELSE @,
          !.failed = IF Get(returned[c]).success THEN @ ELSE @ + 1]
  /\ pc' = [pc EXCEPT ![c] = "free"]
  /\ returned' = [returned EXCEPT ![c] = None]
  /\ UNCHANGED <<store, taskId, task, executionId, result, webhooks, ghlApiKey,
                 httpAnswers, setupAnswers, triggeredBy, now, resilience>>

\* Line 1140: the loop is over.
SchedulerReturn ==
  /\ scheduler.pc = "loop"
  /\ scheduler.batch = <<>>
  /\ scheduler' =
       SchedulerIdle(Some([processed |-> scheduler.processed,
                           success |-> scheduler.success,
                           failed |-> scheduler.failed]))
  /\ UNCHANGED <<store, locals, pc, webhooks, ghlApiKey, httpAnswers,
                 setupAnswers, triggeredBy, now, resilience>>

\* Time passes.
Tick ==
  /\ now < MaxTime
  /\ now' = now + 1
  /\ UNCHANGED <<store, locals, pc, webhooks, ghlApiKey, httpAnswers,
                 setupAnswers, triggeredBy, scheduler, resilience>>

\* The passes of a scheduler over a store that answers every call of
\* executeTask; only the scheduler calls executeTask.
NextScheduler ==
  \/ SchedulerSelect
  \/ SchedulerSelectThrows
  \/ \E c \in Calls : SchedulerCall(c)
  \/ \E c \in Calls : SchedulerResume(c)
  \/ SchedulerReturn
  \/ Tick
  \/ \E c \in Calls : SelectTask(c)
  \/ \E c \in Calls : InsertExecution(c)
  \/ \E c \in Calls : SetInProgress(c)
  \/ \E c \in Calls : RunHandler(c)
  \/ \E c \in Calls : UpdateExecution(c)
  \/ \E c \in Calls : UpdateTask(c)

\* A row of the scheduler's table: a custom task.
SchedulerRow(status, review, reviewedBy, bot, due) ==
  [TaskRow(status, 0, 0, review, reviewedBy, "custom", None, FALSE, FALSE, 0)
     EXCEPT !.assignedToBot = bot, !.scheduledFor = due]

ReadyRow == SchedulerRow("pending", FALSE, 0, TRUE, None)

\* One executeTask at a time, called by the scheduler alone.
NoPassYet ==
  /\ executions = <<>>
  /\ outbound = <<>>
  /\ pc = [c \in 1..1 |-> "free"]
  /\ taskId = [c \in 1..1 |-> 0]
  /\ triggeredBy = [c \in 1..1 |-> "automatic"]
  /\ task = [c \in 1..1 |-> None]
  /\ executionId = [c \in 1..1 |-> 0]
  /\ result = [c \in 1..1 |-> None]
  /\ returned = [c \in 1..1 |-> None]
  /\ scheduler = SchedulerIdle(None)
  /\ now = 0
  /\ BreakerUnused
  /\ webhooks = EnabledWebhook
  /\ ghlApiKey = TRUE
  /\ httpAnswers = {"ok"}
  /\ setupAnswers = {"ok"}

\* Task 1 in any state, followed by k rows that are ready.
TableOf(first, k) == [t \in 1..(k + 1) |-> IF t = 1 THEN first ELSE ReadyRow]

SchedulerRows ==
  {SchedulerRow(status, review, reviewedBy, bot, due) :
     status \in TaskStatuses, review \in BOOLEAN, reviewedBy \in {0, 1},
     bot \in BOOLEAN, due \in {None} \cup {Some(t) : t \in 0..MaxTime}}

\* A table of one or two rows with task 1 in any state, or a table of up to
\* MaxTasks rows that are ready.
InitScheduler ==
  /\ \/ \E first \in SchedulerRows, k \in 0..1 : tasks = TableOf(first, k)
     \/ \E k \in 2..(MaxTasks - 1) : tasks = TableOf(ReadyRow, k)
  /\ NoPassYet

SpecScheduler == InitScheduler /\ [][NextScheduler]_vars

\* A table of one or two rows with task 1 in any state.
InitReview ==
  /\ \E first \in SchedulerRows, k \in 0..1 : tasks = TableOf(first, k)
  /\ NoPassYet

\* The scheduler keeps making passes whose select resolves, every call it
\* awaits resolves, and time passes.
SpecSchedulerFair ==
  /\ InitReview
  /\ [][NextScheduler]_vars
  /\ WF_vars(SchedulerSelect)
  /\ WF_vars(\E c \in Calls : SchedulerCall(c))
  /\ WF_vars(\E c \in Calls : SchedulerResume(c))
  /\ WF_vars(SchedulerReturn)
  /\ WF_vars(Tick)
  /\ WF_vars(\E c \in Calls : SelectTask(c))
  /\ WF_vars(\E c \in Calls : InsertExecution(c))
  /\ WF_vars(\E c \in Calls : SetInProgress(c))
  /\ WF_vars(\E c \in Calls : RunHandler(c))
  /\ WF_vars(\E c \in Calls : UpdateExecution(c))
  /\ WF_vars(\E c \in Calls : UpdateTask(c))

\* Lines 1132 and 1141-1144: executeTask rejected inside the loop; the catch
\* of processPendingTasks ends the pass and returns zeros.
SchedulerCatch(c) ==
  /\ scheduler.pc = "await"
  /\ pc[c] = "threw"
  /\ scheduler' = SchedulerIdle(Some([processed |-> 0, success |-> 0, failed |-> 0]))
  /\ pc' = [pc EXCEPT ![c] = "free"]
  /\ UNCHANGED <<store, locals, webhooks, ghlApiKey, httpAnswers,
                 setupAnswers, triggeredBy, now, resilience>>

\* A store call of the executeTask the scheduler awaits rejects.
ScheduledStoreThrows(c) ==
  /\ Len(executions) < MaxRecords
  /\ StoreThrows(c)

\* The passes of a scheduler over a store that may reject the calls of
\* executeTask; only the scheduler calls executeTask.
NextSchedulerStore ==
  \/ SchedulerSelect
  \/ SchedulerSelectThrows
  \/ \E c \in Calls : SchedulerCall(c)
  \/ \E c \in Calls : SchedulerResume(c)
  \/ \E c \in Calls : SchedulerCatch(c)
  \/ SchedulerReturn
  \/ Tick
  \/ \E c \in Calls : SelectTask(c)
  \/ \E c \in Calls : InsertExecution(c)
  \/ \E c \in Calls : SetInProgress(c)
  \/ \E c \in Calls : RunHandler(c)
  \/ \E c \in Calls : UpdateExecution(c)
  \/ \E c \in Calls : UpdateTask(c)
  \/ \E c \in Calls : ScheduledStoreThrows(c)
  \/ \E c \in Calls : Catch(c)
  \/ \E c \in Calls : CatchThrows(c)

\* One executeTask at a time, called by the scheduler alone; the remote ends
\* answer as given.
NoPassYetAnswering(answers) ==
  /\ executions = <<>>
  /\ outbound = <<>>
  /\ pc = [c \in 1..1 |-> "free"]
  /\ taskId = [c \in 1..1 |-> 0]
  /\ triggeredBy = [c \in 1..1 |-> "automatic"]
  /\ task = [c \in 1..1 |-> None]
  /\ executionId = [c \in 1..1 |-> 0]
  /\ result = [c \in 1..1 |-> None]
  /\ returned = [c \in 1..1 |-> None]
  /\ scheduler = SchedulerIdle(None)
  /\ now = 0
  /\ BreakerUnused
  /\ webhooks = EnabledWebhook
  /\ ghlApiKey = TRUE
  /\ httpAnswers = answers
  /\ setupAnswers = {"ok"}

\* A row of the scheduler's table whose handler succeeds or fails with what
\* the remote end answers: a ready api_call task with errorCount 0.
RetryRow(maxRetries, cfg) ==
  TaskRow("pending", 0, maxRetries, FALSE, 0, "api_call", cfg, FALSE, FALSE, 0)

\* One or two ready tasks with errorCount 0 and maxRetries >= 1.
InitRetries ==
  /\ \E m \in 1..(MaxStored + 1), k \in 1..2 :
       tasks = [t \in 1..k |-> RetryRow(m, ApiCallConfig)]
  /\ NoPassYetAnswering({"ok", "status404"})

SpecSchedulerStore == InitRetries /\ [][NextSchedulerStore]_vars

\* The passes of a scheduler over a store that answers every call, the
\* select of the pass included; only the scheduler calls executeTask.
NextReliable ==
  \/ SchedulerSelect
  \/ \E c \in Calls : SchedulerCall(c)
  \/ \E c \in Calls : SchedulerResume(c)
  \/ SchedulerReturn
  \/ Tick
  \/ \E c \in Calls : SelectTask(c)
  \/ \E c \in Calls : InsertExecution(c)
  \/ \E c \in Calls : SetInProgress(c)
  \/ \E c \in Calls : RunHandler(c)
  \/ \E c \in Calls : UpdateExecution(c)
  \/ \E c \in Calls : UpdateTask(c)

\* An api_call task with any of the documents of its type and any stored
\* maxRetries, pending or queued, due now or later, alone or followed by a
\* ready task; or a table of MaxTasks ready tasks, more than a pass takes.
InitPasses ==
  /\ \/ \E cfg \in ConfigsOf("api_call", 0), m \in 0..MaxStored, k \in 0..1,
           status \in {"pending", "queued"},
           due \in {None} \cup {Some(t) : t \in 0..MaxTime} :
          tasks = TableOf([RetryRow(m, cfg) EXCEPT !.status = status,
                                                   !.scheduledFor = due], k)
     \/ tasks = TableOf(ReadyRow, MaxTasks - 1)
  /\ NoPassYetAnswering({"ok", "status404"})

\* The scheduler keeps making passes, the store answers every call, every
\* handler returns, and time passes.
SpecPassesFair ==
  /\ InitPasses
  /\ [][NextReliable]_vars
  /\ WF_vars(SchedulerSelect)
  /\ WF_vars(\E c \in Calls : SchedulerCall(c))
  /\ WF_vars(\E c \in Calls : SchedulerResume(c))
  /\ WF_vars(SchedulerReturn)
  /\ WF_vars(Tick)
  /\ WF_vars(\E c \in Calls : SelectTask(c))
  /\ WF_vars(\E c \in Calls : InsertExecution(c))
  /\ WF_vars(\E c \in Calls : SetInProgress(c))
  /\ WF_vars(\E c \in Calls : RunHandler(c))
  /\ WF_vars(\E c \in Calls : UpdateExecution(c))
  /\ WF_vars(\E c \in Calls : UpdateTask(c))

\* --------------------------------------------------- resilience primitives

\* What an operation throws.
Err(kind, status) == [kind |-> kind, status |-> status]

Errors ==
  {Err("network", 0), Err("timeout", 0), Err("http", 503), Err("http", 429),
   Err("http", 404), Err("validation", 0), Err("auth", 0)}

CircuitOpen == Err("circuit open", 0)

\* Error classification: network errors, timeouts, HTTP 5xx and HTTP 429 are
\* retryable; the other HTTP 4xx, validation and authentication errors are
\* not.
Retryable(e) ==
  \/ e.kind \in {"network", "timeout"}
  \/ e.kind = "http" /\ (e.status >= 500 \/ e.status = 429)

\* What an operation, or a guarded call, settles to.
Resolved == [success |-> TRUE, error |-> None]
Thrown(e) == [success |-> FALSE, error |-> Some(e)]

Answers == {Resolved} \cup {Thrown(e) : e \in Errors}

\* withRetry gives up retrying at the n-th invocation, which
\* threw e: the error is not retryable, or maxAttempts is exhausted.
Propagates_OneAttemptMore(e, n, maxAttempts) == ~Retryable(e) \/ n > maxAttempts

Propagates(e, n, maxAttempts) == ~Retryable(e) \/ n >= maxAttempts

\* execute: an OPEN breaker rejects the call until the reset timeout has
\* elapsed since the transition to OPEN.
Rejects(b, cfg, t) == b.state = "OPEN" /\ t - b.lastTransition < cfg.resetTimeout

\* execute: the breaker a call is let through: an OPEN breaker whose reset
\* timeout has elapsed becomes HALF_OPEN.
Admits(b, t) ==
  IF b.state = "OPEN"
  THEN [b EXCEPT !.state = "HALF_OPEN", !.successCount = 0, !.lastTransition = t]
  ELSE b

onSuccess_KeepsFailureCount(b, cfg, t) ==
  IF b.state = "HALF_OPEN"
  THEN IF b.successCount + 1 >= cfg.successThreshold
       THEN [b EXCEPT !.state = "CLOSED", !.successCount = 0, !.lastTransition = t]
       ELSE [b EXCEPT !.successCount = @ + 1]
  ELSE [b EXCEPT !.failureCount = 0]

\* The guarded operation resolved.  CLOSED: the run of consecutive failures is
\* over.  HALF_OPEN: the success is counted and the success threshold closes
\* the breaker, all counters reset.
onSuccess(b, cfg, t) ==
  IF b.state = "HALF_OPEN"
  THEN IF b.successCount + 1 >= cfg.successThreshold
       THEN [state |-> "CLOSED", failureCount |-> 0, successCount |-> 0,
             lastTransition |-> t]
       ELSE [b EXCEPT !.successCount = @ + 1]
  ELSE [b EXCEPT !.failureCount = 0]

onFailure_OpensPastThreshold(b, cfg, t) ==
  IF b.state = "HALF_OPEN"
  THEN [b EXCEPT !.state = "OPEN", !.successCount = 0, !.lastTransition = t]
  ELSE IF b.failureCount + 1 > cfg.failureThreshold
       THEN [b EXCEPT !.state = "OPEN", !.failureCount = @ + 1, !.lastTransition = t]
       ELSE [b EXCEPT !.failureCount = @ + 1]

\* The guarded operation threw.  CLOSED: the failure is counted and the
\* failure threshold opens the breaker.  HALF_OPEN: the breaker opens again
\* and the reset timeout starts anew.
onFailure(b, cfg, t) ==
  IF b.state = "HALF_OPEN"
  THEN [b EXCEPT !.state = "OPEN", !.successCount = 0, !.lastTransition = t]
  ELSE IF b.failureCount + 1 >= cfg.failureThreshold
       THEN [b EXCEPT !.state = "OPEN", !.failureCount = @ + 1, !.lastTransition = t]
       ELSE [b EXCEPT !.failureCount = @ + 1]

afterInvocation_RetryWrapsBreaker(b, cfg, t, answer, final) ==
  IF answer.success THEN onSuccess(b, cfg, t) ELSE onFailure(b, cfg, t)

\* The breaker wraps the retry loop: it sees the operation settle once, when
\* withRetry returns or throws (final), not the invocations in between.
afterInvocation(b, cfg, t, answer, final) ==
  IF ~final THEN b
  ELSE IF answer.success THEN onSuccess(b, cfg, t) ELSE onFailure(b, cfg, t)

\* breaker.execute(() => withRetry(operation, {maxAttempts})) is called.
Execute ==
  /\ guarded.pc = "idle"
  /\ \E maxAttempts \in 1..MaxAttempts :
       IF Rejects(breaker, thresholds, now)
       THEN /\ guarded' = [pc |-> "done", maxAttempts |-> maxAttempts,
                           invocations |-> 0, failed |-> 0, lastError |-> None,
                           settled |-> Some(Thrown(CircuitOpen))]
            /\ UNCHANGED breaker
       ELSE /\ guarded' = [pc |-> "retrying", maxAttempts |-> maxAttempts,
                           invocations |-> 0, failed |-> 0, lastError |-> None,
                           settled |-> None]
            /\ breaker' = Admits(breaker, now)
  /\ UNCHANGED <<store, locals, pc, webhooks, ghlApiKey, httpAnswers,
                 setupAnswers, triggeredBy, scheduler, now, thresholds>>

\* withRetry invokes the operation once more and the operation settles.
Attempt ==
  /\ guarded.pc = "retrying"
  /\ \E answer \in Answers :
       LET n == guarded.invocations + 1
           final == answer.success \/ Propagates(Get(answer.error), n, guarded.maxAttempts)
       IN /\ guarded' =
               [guarded EXCEPT
                  !.invocations = n,
                  !.failed = IF answer.success THEN @ ELSE @ + 1,
                  !.lastError = IF answer.success THEN @ ELSE answer.error,
                  !.pc = IF final THEN "done" ELSE "retrying",
                  !.settled = IF final THEN Some(answer) ELSE None]
          /\ breaker' = afterInvocation(breaker, thresholds, now, answer, final)
  /\ UNCHANGED <<store, locals, pc, webhooks, ghlApiKey, httpAnswers,
                 setupAnswers, triggeredBy, scheduler, now, thresholds>>

\* The caller has the outcome of the guarded call.
Settle ==
  /\ guarded.pc = "done"
  /\ guarded' = NoGuardedCall
  /\ UNCHANGED <<store, locals, pc, webhooks, ghlApiKey, httpAnswers,
                 setupAnswers, triggeredBy, scheduler, now, breaker, thresholds>>

\* Time passes: between calls, during an invocation, during a retry delay.
Elapse ==
  /\ now < MaxClock
  /\ now' = now + 1
  /\ UNCHANGED <<store, locals, pc, webhooks, ghlApiKey, httpAnswers,
                 setupAnswers, triggeredBy, scheduler, resilience>>

NextBreaker ==
  \/ Execute
  \/ Attempt
  \/ Settle
  \/ Elapse

\* One breaker, just constructed, with any configuration; one caller, whose
\* guarded calls follow one another.
InitBreaker ==
  /\ tasks = <<>>
  /\ executions = <<>>
  /\ outbound = <<>>
  /\ pc = <<>>
  /\ taskId = <<>>
  /\ triggeredBy = <<>>
  /\ task = <<>>
  /\ executionId = <<>>
  /\ result = <<>>
  /\ returned = <<>>
  /\ scheduler = SchedulerIdle(None)
  /\ now = 0
  /\ breaker = ClosedBreaker
  /\ guarded = NoGuardedCall
  /\ webhooks = <<>>
  /\ ghlApiKey = FALSE
  /\ httpAnswers = {}
  /\ setupAnswers = {}
  /\ \E f \in 1..MaxFailureThreshold, s \in 1..MaxSuccessThreshold, r \in 1..MaxResetTimeout :
       thresholds = [failureThreshold |-> f, successThreshold |-> s, resetTimeout |-> r]

SpecBreaker == InitBreaker /\ [][NextBreaker]_vars

\* ================================================================= claims

Finished == {"returned", "threw"}

\* Call c takes its select step and the select answers.
Selects(c) == pc[c] = "start" /\ pc'[c] \notin {"start", "catch"}

\* Call c resolves to a failure in this step.
ReturnsFailure(c) ==
  /\ pc'[c] = "returned"
  /\ returned'[c] # None
  /\ ~Get(returned'[c]).success
  /\ Get(returned'[c]).error # ""

\* C1: a call whose select finds the task completed or cancelled resolves to
\* success = false in that step; it inserts no execution record, never
\* reaches its handler and leaves the store as it was.
C1_TerminalTaskNotExecuted ==
  [][\A c \in Calls :
       (Selects(c) /\ \A t \in DOMAIN tasks : tasks[t].status \in {"completed", "cancelled"})
       => /\ ReturnsFailure(c)
          /\ UNCHANGED store]_vars

\* A call was turned away from a cancelled task, and no record exists.
C1_Witness ==
  \E c \in Calls :
    /\ pc[c] = "returned"
    /\ returned[c] = Failure("Task is cancelled")
    /\ executions = <<>>

\* C2: once a task's status is completed or cancelled, no step changes it.
C2_TerminalStatusNeverChanges ==
  [][\A t \in DOMAIN tasks :
       tasks[t].status \in {"completed", "cancelled"}
       => tasks'[t].status = tasks[t].status]_vars

\* C3: when a call that inserted an execution record finishes, by returning
\* or by throwing, that record's status is success or failed.
C3_NoDanglingRunningRecord ==
  [][\A c \in Calls :
       (pc[c] \notin Finished /\ pc'[c] \in Finished /\ executionId[c] # 0)
       => executions'[executionId[c]].status \in {"success", "failed"}]_vars

\* C4: an execution record whose status is success or failed keeps that
\* status in every later step.
C4_RecordImmutableOnceTerminal ==
  [][\A i \in 1..Len(executions) :
       executions[i].status \in {"success", "failed"}
       => executions'[i].status = executions[i].status]_vars

\* C5: the update of the task after a handler failure stores the selected
\* errorCount plus one, and status failed if that count is >= the stored
\* maxRetries, pending otherwise (for every errorCount, maxRetries >= 0).
C5_FailureBookkeeping ==
  [][\A c \in Calls :
       (pc[c] = "updateTask" /\ pc'[c] = "returned" /\ ~Get(result[c]).success)
       => LET row == Get(task[c])
              after == tasks'[taskId[c]]
          IN /\ after.errorCount = row.errorCount + 1
             /\ after.status =
                  IF after.errorCount >= row.maxRetries THEN "failed" ELSE "pending"]_vars

\* C6: after a handler success the call sets its record to success and then
\* the task to completed with errorCount untouched; and whenever a call that
\* inserted a record returns, that record is success exactly if the call has
\* just written completed to the task.
C6_SuccessBookkeeping ==
  [][\A c \in Calls :
       /\ (pc[c] = "updateExecution" /\ pc'[c] = "updateTask" /\ Get(result[c]).success)
          => executions'[executionId[c]].status = "success"
       /\ (pc[c] = "updateTask" /\ pc'[c] = "returned" /\ Get(result[c]).success)
          => /\ tasks'[taskId[c]].status = "completed"
             /\ tasks'[taskId[c]].errorCount = tasks[taskId[c]].errorCount
             /\ Get(returned'[c]).success
       /\ (pc[c] \notin Finished /\ pc'[c] = "returned" /\ executionId[c] # 0)
          => (executions'[executionId[c]].status = "success"
              <=> /\ pc[c] = "updateTask"
                  /\ tasks'[taskId[c]].status = "completed")]_vars

\* A call has returned success: the task is completed and a record is success.
C6_Witness ==
  \E c \in Calls :
    /\ pc[c] = "returned"
    /\ returned[c] = Some([success |-> TRUE, error |-> ""])
    /\ \A t \in DOMAIN tasks : tasks[t].status = "completed"
    /\ \E i \in 1..Len(executions) : executions[i].status = "success"

\* C7: a call whose select finds requiresHumanReview set and humanReviewedBy
\* unset resolves to a failure in that step, whatever its triggeredBy; it
\* inserts no execution record and never reaches its handler.
C7_UnreviewedTaskNotExecuted ==
  [][\A c \in Calls :
       (Selects(c) /\ \A t \in DOMAIN tasks :
                        tasks[t].requiresHumanReview /\ tasks[t].humanReviewedBy = 0)
       => /\ ReturnsFailure(c)
          /\ UNCHANGED store]_vars

\* A call was turned away for want of a human review, and no record exists.
C7_Witness ==
  \E c \in Calls :
    /\ pc[c] = "returned"
    /\ returned[c] = Failure("Task requires human review")
    /\ executions = <<>>

\* The field the task's type requires is missing from executionConfig.
MissingRequired(row) ==
  CASE row.taskType \in {"browser_automation", "data_extraction"} ->
         Field(row, "automationSteps") = None /\ Field(row, "browserActions") = None
    [] row.taskType = "api_call" -> Field(row, "apiEndpoint") = ""
    [] row.taskType = "ghl_action" -> Field(row, "ghlAction") = ""
    [] row.taskType = "reminder" -> Field(row, "reminderTime") = ""
    [] row.taskType = "report_generation" -> Field(row, "reportType") = ""
    [] OTHER -> FALSE

StoreOrLookupErrors == {"Task not found", "store error"}

\* C8: a call whose select finds a task without the field its type requires
\* resolves to a failure in that step, before any execution record, and
\* leaves the store as it was; two calls that were turned away by the
\* validation have resolved to the same result.
C8_InvalidConfigRejectedIdempotently ==
  [][/\ \A c \in Calls :
          (Selects(c) /\ \A t \in DOMAIN tasks : MissingRequired(tasks[t]))
          => /\ ReturnsFailure(c)
             /\ UNCHANGED store
     /\ \A c, d \in Calls :
          (/\ \A t \in DOMAIN tasks : MissingRequired(tasks[t])
           /\ pc'[c] = "returned" /\ pc'[d] = "returned"
           /\ Get(returned'[c]).error \notin StoreOrLookupErrors
           /\ Get(returned'[d]).error \notin StoreOrLookupErrors)
          => returned'[c] = returned'[d]]_vars

\* Two calls were turned away from a reminder without reminderTime with the
\* same result, and the store holds no record.
C8_Witness ==
  /\ \E c, d \in Calls :
       /\ c # d
       /\ returned[c] = Failure("Reminder requires reminderTime")
       /\ returned[d] = returned[c]
  /\ executions = <<>>
  /\ \A t \in DOMAIN tasks : tasks[t].status = "pending"

\* The handler of call c has returned after attaching the controller.
ControllerAttached(c) ==
  /\ result[c] # None
  /\ task[c] # None
  /\ Get(result[c]).attached

\* C9: a handler run that attached the automation controller has called
\* close() on it exactly once when it returns.
C9_ControllerClosedExactlyOnce ==
  \A c \in Calls : ControllerAttached(c) => Get(result[c]).closeCalls = 1

\* C10: in the step loop, a step that fails with continueOnError set is
\* followed by the next step and appears with its error in output.steps; when
\* no step fails without the flag (and neither a screenshot nor close()
\* fails) every step is executed and the handler returns success; a step
\* that fails without the flag is the last one executed and the handler
\* returns failure.
C10_ContinueOnErrorDecidesTheLoop ==
  \A c \in Calls :
    ControllerAttached(c) =>
      LET r == Get(result[c])
          steps == StepsOf(Get(task[c]))
          log == r.log
          Failed(i) == log[i] = "stepError"
      IN /\ \A i \in 1..Len(log) :
              (Failed(i) /\ steps[i].continueOnError)
              => /\ i < Len(steps) => Len(log) > i
                 /\ r.success => \E k \in 1..Len(r.steps) : r.steps[k] = StepError(i)
         /\ (/\ \A i \in 1..Len(log) : Failed(i) => steps[i].continueOnError
             /\ \A i \in 1..Len(log) : log[i] # "shotError"
             /\ r.error # "close failed")
            => /\ r.success
               /\ Len(log) = Len(steps)
               /\ Len(r.steps) = Len(steps)
         /\ \A i \in 1..Len(log) :
              (Failed(i) /\ ~steps[i].continueOnError)
              => /\ Len(log) = i
                 /\ ~r.success

\* Two steps, the first failed with continueOnError set, the second ran, and
\* the handler returned success with both in output.steps.
C10_Witness ==
  \E c \in Calls :
    /\ ControllerAttached(c)
    /\ Get(result[c]).success
    /\ Get(result[c]).log = <<"stepError", "ok">>
    /\ Get(result[c]).steps = <<StepError(1), StepOk(2)>>

\* C11: a screenshot capture that fails at step i leaves the later steps to
\* run; in a successful run step i has exactly one entry in output.steps, a
\* non-error one; and when no step itself failed and close() succeeded the
\* handler returns success, as it does when the capture succeeds.
C11_ScreenshotFailureDoesNotFailStep ==
  \A c \in Calls :
    ControllerAttached(c) =>
      LET r == Get(result[c])
          steps == StepsOf(Get(task[c]))
          log == r.log
      IN /\ \A i \in 1..Len(log) :
              log[i] = "shotError"
              => /\ i < Len(steps) => Len(log) > i
                 /\ r.success
                    => /\ Cardinality({k \in 1..Len(r.steps) : r.steps[k].step = i}) = 1
                       /\ \A k \in 1..Len(r.steps) : r.steps[k] # StepError(i)
         /\ (/\ \E i \in 1..Len(log) : log[i] = "shotError"
             /\ \A i \in 1..Len(log) : log[i] # "stepError"
             /\ r.error # "close failed")
            => r.success

\* C14: no executeTask call ends by throwing to its caller.
C14_ExecuteTaskNeverThrows ==
  \A c \in Calls : pc[c] # "threw"

\* Call c runs the handler of a task of this type in this step.
RunsHandler(c, type) ==
  /\ pc[c] = "handler"
  /\ pc'[c] = "updateExecution"
  /\ Get(task[c]).taskType = type

\* The outboundMessages rows inserted in this step.
Enqueued == SubSeq(outbound', Len(outbound) + 1, Len(outbound'))

\* C15: the step of a call that updates the task after its handler enqueues
\* one notification if the handler failed, the task is set to failed and
\* notifyOnFailure is set, or if the handler succeeded, the task is set to
\* completed and notifyOnComplete is set; otherwise it enqueues none.
C15_NotificationIffFlagAndTerminalStatus ==
  [][\A c \in Calls :
       (pc[c] = "updateTask" /\ pc'[c] = "returned")
       => LET row == Get(task[c])
              r == Get(result[c])
              after == tasks'[taskId[c]]
              due == \/ ~r.success /\ after.status = "failed" /\ row.notifyOnFailure
                     \/ r.success /\ after.status = "completed" /\ row.notifyOnComplete
          IN Len(Enqueued) = IF due THEN 1 ELSE 0]_vars

\* C16: a notification handler run fails and enqueues nothing when the
\* task's webhook is missing or disabled for outbound delivery; in every
\* other case (the store answering) it succeeds and enqueues exactly one
\* message with delivery status pending.
C16_NotificationNeedsUsableWebhook ==
  [][\A c \in Calls :
       RunsHandler(c, "notification")
       => LET row == Get(task[c])
              r == Get(result'[c])
          IN IF ~WebhookUsable(webhooks, row)
             THEN ~r.success /\ Enqueued = <<>>
             ELSE r.error # "store error"
                  => /\ r.success
                     /\ Len(Enqueued) = 1
                     /\ Enqueued[1].deliveryStatus = "pending"]_vars

\* C17: a reminder handler run that returns success has enqueued exactly one
\* message, of type reminder, scheduled for the task's reminderTime.
C17_ReminderSuccessEnqueuesOne ==
  [][\A c \in Calls :
       (RunsHandler(c, "reminder") /\ Get(result'[c]).success)
       => /\ Len(Enqueued) = 1
          /\ Enqueued[1].messageType = "reminder"
          /\ Enqueued[1].scheduledFor = Field(Get(task[c]), "reminderTime")]_vars

\* C18: a reminder handler run on a task whose reminderTime is not in the
\* future returns failure and enqueues nothing.
C18_PastReminderFails ==
  [][\A c \in Calls :
       (RunsHandler(c, "reminder") /\ Field(Get(task[c]), "reminderTime") = "past")
       => /\ ~Get(result'[c]).success
          /\ Enqueued = <<>>]_vars

\* The ghl_action handler run of this step fails with this message as a
\* result value, without a call of fetch.
GhlFailsWithoutFetch(c, msg) ==
  /\ ~Get(result'[c]).success
  /\ Get(result'[c]).error = msg
  /\ Get(result'[c]).httpCalls = 0

\* C19 as stated: a ghl_action handler run with a ghlAction outside the five
\* known ones fails with "Unknown GHL action: {name}" and calls fetch never.
C19_UnknownGhlActionFails_AsStated ==
  [][\A c \in Calls :
       (RunsHandler(c, "ghl_action")
        /\ Field(Get(task[c]), "ghlAction") \notin KnownGhlActions)
       => GhlFailsWithoutFetch(c, "Unknown GHL action: " \o Field(Get(task[c]), "ghlAction"))]_vars

\* C19: with the GHL API key configured, a ghl_action handler run with a
\* ghlAction outside the five known ones fails with
\* "Unknown GHL action: {name}" and calls fetch never.
C19_UnknownGhlActionFails ==
  [][\A c \in Calls :
       (RunsHandler(c, "ghl_action")
        /\ ghlApiKey
        /\ Field(Get(task[c]), "ghlAction") \notin KnownGhlActions)
       => GhlFailsWithoutFetch(c, "Unknown GHL action: " \o Field(Get(task[c]), "ghlAction"))]_vars

\* The handler of a frobnicate task has returned the unknown-action failure
\* without a call of fetch.
C19_Witness ==
  \E c \in Calls :
    /\ pc[c] = "updateExecution"
    /\ ghlApiKey
    /\ Field(Get(task[c]), "ghlAction") = "frobnicate"
    /\ Get(result[c]).error = "Unknown GHL action: frobnicate"
    /\ Get(result[c]).httpCalls = 0

\* C20: without a GHL API key every ghl_action handler run returns the
\* failure "GHL API key not configured" as a value and calls fetch never.
C20_NoGhlKeyFails ==
  [][\A c \in Calls :
       (RunsHandler(c, "ghl_action") /\ ~ghlApiKey)
       => GhlFailsWithoutFetch(c, "GHL API key not configured")]_vars

\* Without a key, the handler of a task with a known and of one with an
\* unknown action has returned the key failure.
C20_Witness ==
  \E c \in Calls :
    /\ pc[c] = "updateExecution"
    /\ ~ghlApiKey
    /\ Get(task[c]).taskType = "ghl_action"
    /\ Get(result[c]).error = "GHL API key not configured"
    /\ Get(result[c]).httpCalls = 0

\* C12: the batch a pass selects holds at most ten tasks, each of them, at
\* the time of the select, assigned to the bot, not requiring human review,
\* pending or queued, and scheduled for no time or a time not later than
\* now; and every call of executeTask in a pass is for the next task of that
\* batch, with triggeredBy = "scheduled".
C12_SchedulerPassesOnlySelectableTasks ==
  [][/\ (scheduler.pc = "idle" /\ scheduler'.pc = "loop")
        => /\ Len(scheduler'.batch) <= 10
           /\ \A i \in 1..Len(scheduler'.batch) :
                LET row == tasks[scheduler'.batch[i]]
                IN /\ row.assignedToBot
                   /\ ~row.requiresHumanReview
                   /\ row.status \in {"pending", "queued"}
                   /\ row.scheduledFor = None \/ Get(row.scheduledFor) <= now
     /\ \A c \in Calls :
          (pc[c] # "start" /\ pc'[c] = "start")
          => /\ scheduler.pc = "loop"
             /\ taskId'[c] = Head(scheduler.batch)
             /\ triggeredBy'[c] = "scheduled"]_vars

\* The tenth call of a pass is under way while an eleventh task that could
\* be selected waits outside the batch.
C12_Witness ==
  /\ scheduler.pc = "await"
  /\ scheduler.processed = 10
  /\ Len(scheduler.batch) = 1
  /\ \E c \in Calls : taskId[c] = Head(scheduler.batch) /\ triggeredBy[c] = "scheduled"
  /\ \E t \in DOMAIN tasks :
       /\ tasks[t].status = "pending"
       /\ \A i \in 1..Len(executions) : executions[i].taskId # t
       /\ t # Head(scheduler.batch)

\* Task t is assigned to the bot, pending, due, and a human has signed off
\* the review it requires.
HumanSignedOff(t) ==
  /\ t \in DOMAIN tasks
  /\ tasks[t].assignedToBot
  /\ tasks[t].status = "pending"
  /\ tasks[t].scheduledFor = None \/ Get(tasks[t].scheduledFor) <= now
  /\ tasks[t].requiresHumanReview
  /\ tasks[t].humanReviewedBy # 0

\* executeTask has just been called for task t.
PassedToExecuteTask(t) ==
  \E c \in Calls : pc[c] = "start" /\ taskId[c] = t

\* C13: a task that is assigned to the bot, pending, due and signed off by a
\* human is eventually passed to executeTask by the scheduler's passes.
C13_SignedOffTaskEventuallyRuns ==
  \A t \in 1..2 : [](HumanSignedOff(t) => <>PassedToExecuteTask(t))

\* A guarded call is made in this step.
CallMade == guarded.pc = "idle" /\ guarded'.pc # "idle"

\* The guarded call was rejected by the breaker: the operation was not invoked.
RejectedCircuitOpen(g) ==
  /\ g.pc = "done"
  /\ g.invocations = 0
  /\ g.settled = Some(Thrown(CircuitOpen))

\* The operation of the guarded call settles in this step: withRetry returns
\* (ok) or throws.
SettlesWith(ok) ==
  /\ guarded.pc = "retrying"
  /\ guarded'.pc = "done"
  /\ Get(guarded'.settled).success = ok

C22_HalfOpenTrials ==
  [][/\ (CallMade /\ breaker.state = "OPEN"
           /\ now - breaker.lastTransition >= thresholds.resetTimeout)
        => /\ breaker'.state = "HALF_OPEN"
           /\ breaker'.successCount = 0
           /\ guarded'.pc = "retrying"
     /\ (breaker.state = "HALF_OPEN" /\ SettlesWith(TRUE))
        => IF breaker.successCount + 1 >= thresholds.successThreshold
           THEN /\ breaker'.state = "CLOSED"
                /\ breaker'.failureCount = 0
                /\ breaker'.successCount = 0
           ELSE /\ breaker'.state = "HALF_OPEN"
                /\ breaker'.successCount = breaker.successCount + 1
     /\ (breaker.state = "HALF_OPEN" /\ SettlesWith(FALSE))
        => /\ breaker'.state = "OPEN"
           /\ breaker'.lastTransition = now]_vars

\* A breaker with success threshold 2 that had opened is CLOSED again after
\* the call that has just resolved.
C22_Witness ==
  /\ thresholds.successThreshold = 2
  /\ breaker.state = "CLOSED"
  /\ breaker.lastTransition > 0
  /\ guarded.pc = "done"
  /\ guarded.settled = Some(Resolved)

\* C23: every invocation by withRetry is within maxAttempts; withRetry
\* retries only after a retryable error and with attempts left; it throws the
\* error of the invocation that has just failed when that error is not
\* retryable or when it was the maxAttempts-th invocation; it returns at the
\* first success, which after two failures under maxAttempts = 3 is the third
\* invocation.
C23_WithRetryInvocations ==
  [][(guarded.pc = "retrying" /\ guarded' # guarded)
       => LET n == guarded'.invocations
              answer == Get(guarded'.settled)
          IN /\ n = guarded.invocations + 1
             /\ n <= guarded.maxAttempts
             /\ guarded'.maxAttempts = guarded.maxAttempts
             /\ guarded'.invocations =
                  guarded'.failed
                    + (IF guarded'.settled = Some(Resolved) THEN 1 ELSE 0)
             /\ guarded'.pc = "retrying"
                  => /\ Retryable(Get(guarded'.lastError))
                     /\ n < guarded.maxAttempts
             /\ (guarded'.pc = "done" /\ ~answer.success)
                  => /\ answer.error = guarded'.lastError
                     /\ guarded'.failed = guarded.failed + 1
                     /\ ~Retryable(Get(answer.error)) \/ n = guarded.maxAttempts
             /\ (guarded'.pc = "done" /\ answer.success
                   /\ guarded.failed = 2 /\ guarded.maxAttempts = 3)
                  => n = 3]_vars

\* withRetry with maxAttempts = 3 has returned the success value of the third
\* invocation, after two failures.
C23_Witness ==
  /\ guarded.pc = "done"
  /\ guarded.settled = Some(Resolved)
  /\ guarded.maxAttempts = 3
  /\ guarded.failed = 2
  /\ guarded.invocations = 3

\* C25: the failure count never grows by more than one in a step; the
\* invocations that withRetry follows by a retry leave the breaker as it was;
\* a retry sequence that ends in a success records no failure; one that ends
\* in an error adds one to the failure count of a CLOSED breaker, and opens a
\* HALF_OPEN one.
C25_RetrySequenceCountsOnce ==
  [][/\ breaker'.failureCount <= breaker.failureCount + 1
     /\ (guarded.pc = "retrying" /\ guarded'.pc = "retrying")
        => UNCHANGED breaker
     /\ SettlesWith(TRUE)
        => /\ breaker'.failureCount \in {0, breaker.failureCount}
           /\ breaker'.state # "OPEN"
     /\ SettlesWith(FALSE)
        => IF breaker.state = "CLOSED"
           THEN breaker'.failureCount = breaker.failureCount + 1
           ELSE /\ breaker'.state = "OPEN"
                /\ breaker'.failureCount = breaker.failureCount]_vars

\* A retry sequence of three failed invocations has been counted as the one
\* failure of a CLOSED breaker.
C25_Witness ==
  /\ guarded.pc = "done"
  /\ guarded.invocations = 3
  /\ guarded.failed = 3
  /\ breaker.state = "CLOSED"
  /\ breaker.failureCount = 1

\* Call c comes to its handler in this step.
HandlerStarts(c) == pc[c] # "handler" /\ pc'[c] = "handler"

\* C24: when a call comes to its handler, the record it inserted is in
\* taskExecutions with status running, its task and attemptNumber = the
\* errorCount of the row it selected + 1, and the step that brings it there
\* writes in_progress to the task; a call that has not inserted its record
\* has no handler result and adds nothing to outboundMessages.
C24_RecordAndInProgressBeforeHandler ==
  [][\A c \in Calls :
       /\ HandlerStarts(c)
          => /\ executionId'[c] \in 1..Len(executions')
             /\ executions'[executionId'[c]].taskId = taskId'[c]
             /\ executions'[executionId'[c]].status = "running"
             /\ executions'[executionId'[c]].attemptNumber
                  = Get(task'[c]).errorCount + 1
             /\ tasks'[taskId'[c]].status = "in_progress"
       /\ (pc[c] \in {"start", "insert"} /\ pc'[c] # pc[c])
          => /\ result'[c] = None
             /\ outbound' = outbound
             /\ pc'[c] # "handler"]_vars

\* A call on a task that has failed once stands before its handler: its
\* record is attempt 2, running, and the task is in_progress.
C24_Witness ==
  \E c \in Calls :
    /\ pc[c] = "handler"
    /\ Get(task[c]).errorCount = 1
    /\ executions[executionId[c]].attemptNumber = 2
    /\ executions[executionId[c]].status = "running"
    /\ tasks[taskId[c]].status = "in_progress"

\* The records of task t that have the given status.
RecordsOf(t, status) ==
  {e \in 1..Len(executions) :
     executions[e].taskId = t /\ executions[e].status = status}

\* C26: at any time at most one execution record of a task is running.
C26_AtMostOneRunningRecordPerTask ==
  \A t \in DOMAIN tasks : Cardinality(RecordsOf(t, "running")) <= 1

\* No executeTask call on task t is under way.
NoCallUnderWay(t) == \A c \in Calls : pc[c] \in Finished \cup {"start", "free"} \/ taskId[c] # t

\* C27: a task that executeTask calls have started (startedAt is written with
\* in_progress) is not in_progress when none of them is under way any more.
C27_NotLeftInProgress ==
  \A t \in DOMAIN tasks :
    (tasks[t].startedAt # None /\ NoCallUnderWay(t))
      => tasks[t].status # "in_progress"

\* C28: for a task created with errorCount 0, when no call on it is under
\* way its errorCount is the number of its records with status failed, and no
\* two of its records have the same attemptNumber.
C28_ErrorCountIsFailedRecords ==
  \A t \in DOMAIN tasks :
    NoCallUnderWay(t)
      => /\ tasks[t].errorCount = Cardinality(RecordsOf(t, "failed"))
         /\ \A e1, e2 \in 1..Len(executions) :
              (e1 # e2 /\ executions[e1].taskId = t /\ executions[e2].taskId = t)
                => executions[e1].attemptNumber # executions[e2].attemptNumber

\* All the records of task t.
AllRecordsOf(t) == {e \in 1..Len(executions) : executions[e].taskId = t}

\* C29: under passes of the scheduler alone, a task with errorCount 0 at
\* first and maxRetries = M >= 1 never has more than M execution records nor
\* an errorCount above M, and no record is added for a task that is failed.
C29_AtMostMaxRetriesRuns ==
  [][\A t \in DOMAIN tasks :
       /\ tasks[t].maxRetries >= 1
          => /\ Cardinality(AllRecordsOf(t))' <= tasks[t].maxRetries
             /\ tasks'[t].errorCount <= tasks[t].maxRetries
       /\ tasks[t].status = "failed"
          => AllRecordsOf(t)' = AllRecordsOf(t)]_vars

\* Task t is waiting for a pass, or a pass is executing it.
Unsettled(t) ==
  \/ Selectable(tasks[t], now)
  \/ tasks[t].status = "in_progress" /\ tasks[t].startedAt # None

\* C30: with passes following one another over a store that does not fail
\* and handlers that return, every selectable task is eventually completed
\* or failed, also when more than BatchLimit tasks are selectable.  A task
\* leaves the selectable ones only through in_progress to completed, failed
\* (both final under the scheduler alone) or pending again, so this is: from
\* some moment on, no task is selectable or being executed.
C30_SelectableTasksEventuallySettle ==
  <>[](\A t \in DOMAIN tasks : ~Unsettled(t))

====
